---- MODULE Spec2Model ----
(***************************************************************************)
(* Model of apiserver/plane/api/views/module.py: ModuleViewSet.create and  *)
(* ModuleIssueViewSet.create (the bulk-add of issues to a module).         *)
(*                                                                         *)
(* A bulk-add request is modelled as a process that goes through the       *)
(* database round trips of the handler in order: the reads and the         *)
(* classification loop (lines 145-188), bulk_create (190-194),             *)
(* bulk_update (196-200), issue_activity.delay (203-219) and the response  *)
(* (221-224).  Spec runs one request at a time; SpecConc runs two requests *)
(* for different target modules whose steps interleave.                    *)
(***************************************************************************)
EXTENDS Integers, Sequences, FiniteSets, TLC

\* Longest "issues" list of a request.
MaxLen == 2

IssueIds == {"A", "B", "C"}
ModuleIds == {"M1", "M2", "M3"}
\* The modules that exist before any module is created.
InitialModules == {"M1", "M2"}
\* The request slots: Spec uses slot 1 only, SpecConc both.
Slots == {1, 2}
\* A request body without the "issues" key.
NoField == [keys |-> {}, issues |-> <<>>]
NoModule == "none"

HTTP_200_OK == 200
HTTP_201_CREATED == 201
HTTP_400_BAD_REQUEST == 400
HTTP_404_NOT_FOUND == 404
HTTP_410_GONE == 410
\* The view returned no Response object at all.
NoResponse == 0

VARIABLES
    modules,    \* the Module rows of the project (a module is named by its id)
    links,      \* the ModuleIssue rows: [pk, module_id, issue_id]
    req,        \* per slot: the locals of ModuleIssueViewSet.create and its response
    mod         \* the last call of ModuleViewSet.create and its response

vars == <<modules, links, req, mod>>

----------------------------------------------------------------------------
\* Helpers

InList(x, s) == \E k \in 1..Len(s) : s[k] = x

Range(s) == {s[k] : k \in 1..Len(s)}

SeqsUpTo(S, n) == UNION {[1..k -> S] : k \in 0..n}

\* Every order in which a query without ORDER BY can return the rows of S.
Orders(S) == {s \in [1..Cardinality(S) -> S] : \A i, j \in 1..Cardinality(S) : s[i] = s[j] => i = j}

IssuePk == "A" :> 1 @@ "B" :> 2 @@ "C" :> 3

MaxPk(ls) == CHOOSE p \in {l.pk : l \in ls} : \A l \in ls : l.pk <= p

NextPk(ls) == IF ls = {} THEN 1 ELSE MaxPk(ls) + 1

\* The bodies a request can carry: no "issues" key, or a list of issue ids.
Bodies == {NoField} \cup {[keys |-> {"issues"}, issues |-> s] : s \in SeqsUpTo(IssueIds, MaxLen)}

----------------------------------------------------------------------------
\* ModuleIssueViewSet.create

\* request.data.get("issues", [])
IssuesOf(data) == IF "issues" \in data.keys THEN data.issues ELSE <<>>

NoIssues_NeverEmpty(issues) == FALSE

\* if not len(issues)
NoIssues(issues) == Len(issues) = 0

\* Module.objects.get(workspace__slug=slug, project_id=project_id, pk=module_id)
ModuleExists(module_id) == module_id \in modules

\* ModuleIssue.objects.filter(issue_id__in=issues)
FilterIssueIdIn(issues) == {l \in links : InList(l.issue_id, issues)}

SetModuleId(mis, pk, m) ==
    [k \in 1..Len(mis) |-> IF mis[k].pk = pk THEN [mis[k] EXCEPT !.module_id = m] ELSE mis[k]]

EmptyPlan(module_issues) ==
    [module_issues |-> module_issues,
     update_module_issue_activity |-> <<>>,
     records_to_update |-> <<>>,
     record_to_create |-> <<>>]

\* The body of "for issue in issues" for the k-th issue, then the rest of the loop.
\* st.module_issues are the objects read, the first of them possibly reassigned.
RECURSIVE ForIssueInIssues(_, _, _, _)
ForIssueInIssues(issues, k, module_id, st) ==
    IF k > Len(issues) THEN st
    ELSE
      LET issue == issues[k]
          module_issue == SelectSeq(st.module_issues, LAMBDA mi : InList(mi.issue_id, issues))
      IN  ForIssueInIssues(issues, k + 1, module_id,
            IF Len(module_issue) > 0
            THEN IF module_issue[1].module_id # module_id
                 THEN [st EXCEPT
                         !.update_module_issue_activity =
                             Append(@, [old_module_id |-> module_issue[1].module_id,
                                        new_module_id |-> module_id,
                                        issue_id |-> module_issue[1].issue_id]),
                         !.module_issues = SetModuleId(@, module_issue[1].pk, module_id),
                         !.records_to_update =
                             Append(@, [module_issue[1] EXCEPT !.module_id = module_id])]
                 ELSE st
            ELSE [st EXCEPT !.record_to_create =
                     Append(@, [module_id |-> module_id, issue_id |-> issue])])

\* Whether the insert of obj conflicts with a row of ls: the link is the
\* associative entity (module_id, issue_id).
Conflicts(ls, obj) ==
    \E l \in ls : l.module_id = obj.module_id /\ l.issue_id = obj.issue_id

\* ModuleIssue.objects.bulk_create(objs, ignore_conflicts=True)
RECURSIVE bulk_create(_, _)
bulk_create(ls, objs) ==
    IF objs = <<>> THEN ls
    ELSE LET obj == Head(objs)
         IN  bulk_create(
               IF Conflicts(ls, obj) THEN ls
               ELSE ls \cup {[pk |-> NextPk(ls), module_id |-> obj.module_id,
                              issue_id |-> obj.issue_id]},
               Tail(objs))

\* ModuleIssue.objects.bulk_update(objs, ["module"])
bulk_update(ls, objs) ==
    {IF \E k \in 1..Len(objs) : objs[k].pk = l.pk
     THEN [l EXCEPT !.module_id = (CHOOSE o \in Range(objs) : o.pk = l.pk).module_id]
     ELSE l : l \in ls}

ActivityEvent_UpdatesOnly(updated, created) ==
    [updated_module_issues |-> updated, created_module_issues |-> <<>>]

\* The "current_instance" of the event handed to issue_activity.delay
ActivityEvent(updated, created) ==
    [updated_module_issues |-> updated, created_module_issues |-> created]

\* ModuleIssueSerializer(self.get_queryset(), many=True).data
ModuleLinks(module_id) == {l \in links : l.module_id = module_id}

IdleReq ==
    [pc |-> "idle", module_id |-> NoModule, data |-> NoField,
     update_module_issue_activity |-> <<>>, records_to_update |-> <<>>,
     record_to_create |-> <<>>,
     inserted |-> FALSE, updated |-> FALSE, events |-> <<>>,
     delay_raised |-> FALSE, captured |-> FALSE,
     status |-> NoResponse, body |-> {}, repeat |-> FALSE]

\* Slot r has returned its success response to the request (module_id, data).
Applied(r, module_id, data) ==
    /\ req[r].pc = "done"
    /\ req[r].status = HTTP_200_OK
    /\ req[r].module_id = module_id
    /\ req[r].data = data

\* The request that enters slot r: a repeat when it is sent again right after
\* it has returned its success response.
NewReq(r, module_id, data) ==
    [IdleReq EXCEPT !.module_id = module_id, !.data = data,
                    !.repeat = Applied(r, module_id, data)]

\* Slot r takes the request (module_id, data): the slot is idle, or the client
\* sends again the request it has just been answered with success.
Free(r, module_id, data) == req[r].pc = "idle" \/ Applied(r, module_id, data)

\* issues empty or missing: {"error": "Issues are required"}
IssuesRequired(r, module_id, data) ==
    /\ Free(r, module_id, data)
    /\ NoIssues(IssuesOf(data))
    /\ req' = [req EXCEPT ![r] = [NewReq(r, module_id, data) EXCEPT
                                    !.pc = "done", !.status = HTTP_400_BAD_REQUEST]]
    /\ UNCHANGED <<modules, links, mod>>

\* except Module.DoesNotExist: {"error": "Module Does not exists"}
ModuleDoesNotExist(r, module_id, data) ==
    /\ Free(r, module_id, data)
    /\ ~NoIssues(IssuesOf(data))
    /\ ~ModuleExists(module_id)
    /\ req' = [req EXCEPT ![r] = [NewReq(r, module_id, data) EXCEPT
                                    !.pc = "done", !.status = HTTP_400_BAD_REQUEST]]
    /\ UNCHANGED <<modules, links, mod>>

\* The read of the existing links, in any row order, and the classification loop.
Classify(r, module_id, data) ==
    /\ Free(r, module_id, data)
    /\ ~NoIssues(IssuesOf(data))
    /\ ModuleExists(module_id)
    /\ \E module_issues \in Orders(FilterIssueIdIn(IssuesOf(data))) :
         LET st == ForIssueInIssues(IssuesOf(data), 1, module_id, EmptyPlan(module_issues))
         IN  req' = [req EXCEPT ![r] = [NewReq(r, module_id, data) EXCEPT
                        !.pc = "bulk_create",
                        !.update_module_issue_activity = st.update_module_issue_activity,
                        !.records_to_update = st.records_to_update,
                        !.record_to_create = st.record_to_create]]
    /\ UNCHANGED <<modules, links, mod>>

BulkCreate(r) ==
    /\ req[r].pc = "bulk_create"
    /\ links' = bulk_create(links, req[r].record_to_create)
    /\ req' = [req EXCEPT ![r].pc = "bulk_update", ![r].inserted = TRUE]
    /\ UNCHANGED <<modules, mod>>

BulkUpdate(r) ==
    /\ req[r].pc = "bulk_update"
    /\ links' = bulk_update(links, req[r].records_to_update)
    /\ req' = [req EXCEPT ![r].pc = "activity", ![r].updated = TRUE]
    /\ UNCHANGED <<modules, mod>>

\* issue_activity.delay(...) hands the event to the task queue
IssueActivityDelay(r) ==
    /\ req[r].pc = "activity"
    /\ req' = [req EXCEPT ![r].pc = "respond",
                          ![r].events = Append(@, ActivityEvent(
                                            req[r].update_module_issue_activity,
                                            req[r].record_to_create))]
    /\ UNCHANGED <<modules, links, mod>>

\* issue_activity.delay(...) raises (the broker is unreachable, the payload does
\* not serialize): except Exception reports it and answers the generic error.
IssueActivityDelayRaises(r) ==
    /\ req[r].pc = "activity"
    /\ req' = [req EXCEPT ![r].pc = "done", ![r].delay_raised = TRUE,
                          ![r].captured = TRUE,
                          ![r].status = HTTP_400_BAD_REQUEST]
    /\ UNCHANGED <<modules, links, mod>>

ReturnResponse(r) ==
    /\ req[r].pc = "respond"
    /\ req' = [req EXCEPT ![r].pc = "done", ![r].status = HTTP_200_OK,
                          ![r].body = ModuleLinks(req[r].module_id)]
    /\ UNCHANGED <<modules, links, mod>>

\* The response has been delivered: the locals of the call are gone.
Close(r) ==
    /\ req[r].pc = "done"
    /\ req' = [req EXCEPT ![r] = IdleReq]
    /\ UNCHANGED <<modules, links, mod>>

----------------------------------------------------------------------------
\* ModuleViewSet.create

GenericError == "Something went wrong please try again later"

NoCall == [fault |-> "none", name |-> NoModule, status |-> NoResponse,
           body |-> "", captured |-> FALSE, called |-> FALSE]

Answer(fault, name, status, body, captured) ==
    [fault |-> fault, name |-> name, status |-> status, body |-> body,
     captured |-> captured, called |-> TRUE]

\* except Project.DoesNotExist
ProjectNotFound(name) ==
    /\ mod' = Answer("project_missing", name, HTTP_404_NOT_FOUND, "Project was not found", FALSE)
    /\ UNCHANGED <<modules, links, req>>

\* serializer.is_valid() is false
Invalid(name) ==
    /\ mod' = Answer("invalid", name, HTTP_400_BAD_REQUEST, "serializer.errors", FALSE)
    /\ UNCHANGED <<modules, links, req>>

\* serializer.save() succeeds
Created(name) ==
    /\ name \notin modules
    /\ modules' = modules \cup {name}
    /\ mod' = Answer("none", name, HTTP_201_CREATED, "serializer.data", FALSE)
    /\ UNCHANGED <<links, req>>

\* serializer.save() raises IntegrityError "... already exists"
NameTaken(name) ==
    /\ name \in modules
    /\ mod' = Answer("name_conflict", name, HTTP_410_GONE, "The module name is already taken", FALSE)
    /\ UNCHANGED <<modules, links, req>>

\* serializer.save() raises an IntegrityError without "already exists" in its
\* text: the except clause ends without a return, and no later clause runs.
OtherIntegrityError(name) ==
    /\ mod' = Answer("integrity_other", name, NoResponse, "", FALSE)
    /\ UNCHANGED <<modules, links, req>>

\* serializer.save() raises any other exception
OtherException(name) ==
    /\ mod' = Answer("error", name, HTTP_400_BAD_REQUEST, GenericError, TRUE)
    /\ UNCHANGED <<modules, links, req>>

----------------------------------------------------------------------------
\* Specifications

\* Every link store over the initial modules in which an issue has at most one link.
InitialStores ==
    {{[pk |-> IssuePk[i], module_id |-> f[i], issue_id |-> i] : i \in {j \in IssueIds : f[j] # NoModule}} :
        f \in [IssueIds -> InitialModules \cup {NoModule}]}

Init ==
    /\ modules = InitialModules
    /\ links \in InitialStores
    /\ req = [r \in Slots |-> IdleReq]
    /\ mod = NoCall

\* Bulk-add requests one after the other.
Next ==
    \/ \E m \in ModuleIds, d \in Bodies : IssuesRequired(1, m, d)
    \/ \E m \in ModuleIds, d \in Bodies : ModuleDoesNotExist(1, m, d)
    \/ \E m \in ModuleIds, d \in Bodies : Classify(1, m, d)
    \/ BulkCreate(1)
    \/ BulkUpdate(1)
    \/ IssueActivityDelay(1)
    \/ IssueActivityDelayRaises(1)
    \/ ReturnResponse(1)
    \/ Close(1)

Spec == Init /\ [][Next]_vars

\* Two bulk-add requests, one per slot, for different target modules.
OtherTarget(r, m) == \A s \in Slots \ {r} : req[s].module_id # m

NextConc ==
    \/ \E r \in Slots, m \in ModuleIds, d \in Bodies :
          req[r].pc = "idle" /\ OtherTarget(r, m) /\ Classify(r, m, d)
    \/ \E r \in Slots : BulkCreate(r)
    \/ \E r \in Slots : BulkUpdate(r)
    \/ \E r \in Slots : IssueActivityDelay(r)
    \/ \E r \in Slots : IssueActivityDelayRaises(r)
    \/ \E r \in Slots : ReturnResponse(r)

SpecConc == Init /\ [][NextConc]_vars

\* Module creation.
NextModule ==
    \/ \E n \in ModuleIds : ProjectNotFound(n)
    \/ \E n \in ModuleIds : Invalid(n)
    \/ \E n \in ModuleIds : Created(n)
    \/ \E n \in ModuleIds : NameTaken(n)
    \/ \E n \in ModuleIds : OtherIntegrityError(n)
    \/ \E n \in ModuleIds : OtherException(n)

SpecModule == Init /\ [][NextModule]_vars

----------------------------------------------------------------------------
\* Properties

Requested(r) == Range(IssuesOf(req[r].data))

LinksOfIssue(i) == {l \in links : l.issue_id = i}

\* Slot r has classified its issues and has not written yet: links is the
\* store the request read.
Planned(r) == req[r].pc = "bulk_create"

Succeeded(r) == req[r].pc = "done" /\ req[r].status = HTTP_200_OK

\* The number of entries of the plan list s that are about issue i.
EntriesFor(s, i) == Cardinality({k \in 1..Len(s) : s[k].issue_id = i})

PlanEmpty(r) ==
    /\ req[r].record_to_create = <<>>
    /\ req[r].records_to_update = <<>>
    /\ req[r].update_module_issue_activity = <<>>

\* C1: after a bulk-add has returned its success response, every requested
\* issue has exactly one link and that link points to the target module.
C1_RequestedLinkedToTarget ==
    \A r \in Slots : Succeeded(r) =>
        \A i \in Requested(r) :
            /\ Cardinality(LinksOfIssue(i)) = 1
            /\ \A l \in LinksOfIssue(i) : l.module_id = req[r].module_id

\* C2: every requested issue without a link gets a create entry for the target,
\* also when other requested issues have links; with M1 holding {A, B} and a
\* request of {B, C} for M2 the plan is create [C], update [B -> M2],
\* activity [{B, M1, M2}].
C2_UnlinkedIssuesCreated ==
    \A r \in Slots : Planned(r) =>
        /\ \A i \in Requested(r) : LinksOfIssue(i) = {} =>
              \E k \in 1..Len(req[r].record_to_create) :
                  req[r].record_to_create[k] = [module_id |-> req[r].module_id, issue_id |-> i]
        /\ ( /\ links = {[pk |-> 1, module_id |-> "M1", issue_id |-> "A"],
                         [pk |-> 2, module_id |-> "M1", issue_id |-> "B"]}
             /\ Requested(r) = {"B", "C"}
             /\ req[r].module_id = "M2" )
           => /\ req[r].record_to_create = <<[module_id |-> "M2", issue_id |-> "C"]>>
              /\ req[r].records_to_update = <<[pk |-> 2, module_id |-> "M2", issue_id |-> "B"]>>
              /\ req[r].update_module_issue_activity =
                    <<[old_module_id |-> "M1", new_module_id |-> "M2", issue_id |-> "B"]>>

\* C3: every requested issue linked to a module other than the target has
\* exactly one update entry and exactly one activity entry, the latter with
\* the module it was linked to as old_module_id and the target as new_module_id.
C3_OneMovePerLinkedIssue ==
    \A r \in Slots : Planned(r) =>
        \A l \in links : (l.issue_id \in Requested(r) /\ l.module_id # req[r].module_id) =>
            /\ EntriesFor(req[r].records_to_update, l.issue_id) = 1
            /\ \E k \in 1..Len(req[r].records_to_update) :
                  req[r].records_to_update[k] = [l EXCEPT !.module_id = req[r].module_id]
            /\ EntriesFor(req[r].update_module_issue_activity, l.issue_id) = 1
            /\ \A k \in 1..Len(req[r].update_module_issue_activity) :
                  LET a == req[r].update_module_issue_activity[k]
                  IN  a.issue_id = l.issue_id =>
                         a.old_module_id = l.module_id /\ a.new_module_id = req[r].module_id

\* A requested issue already linked to the target has no entry in the plan.
NoEntryForIssuesInTarget(r) ==
    \A l \in links : (l.issue_id \in Requested(r) /\ l.module_id = req[r].module_id) =>
        /\ EntriesFor(req[r].record_to_create, l.issue_id) = 0
        /\ EntriesFor(req[r].records_to_update, l.issue_id) = 0
        /\ EntriesFor(req[r].update_module_issue_activity, l.issue_id) = 0

\* C4: a requested issue already linked to the target produces no create, no
\* update and no activity entry, and the same bulk-add run again right after it
\* has been applied produces an empty plan.
C4_Idempotent ==
    \A r \in Slots : Planned(r) =>
        /\ NoEntryForIssuesInTarget(r)
        /\ req[r].repeat => PlanEmpty(r)

\* C5: when no requested issue has a link, the create-plan holds exactly one
\* entry per distinct requested issue (an issue requested twice has one entry)
\* and the update-plan and the activity list are empty.
C5_OneCreatePerDistinctIssue ==
    \A r \in Slots : (Planned(r) /\ \A i \in Requested(r) : LinksOfIssue(i) = {}) =>
        /\ \A i \in Requested(r) :
              EntriesFor(req[r].record_to_create, i) = 1
        /\ Len(req[r].record_to_create) = Cardinality(Requested(r))
        /\ req[r].records_to_update = <<>>
        /\ req[r].update_module_issue_activity = <<>>

\* The request in slot r names a missing module or carries no issue id.
Rejectable(q) == Len(IssuesOf(q.data)) = 0 \/ q.module_id \notin modules

\* C6: a bulk-add whose target module does not exist, or whose issues list is
\* empty or missing, returns a client error, and no link is created, no link is
\* reassigned, no activity event is submitted: the link store stays as it was.
C6_RejectedWithoutMutation ==
    /\ [](\A r \in Slots : (req[r].pc # "idle" /\ Rejectable(req[r])) =>
              /\ req[r].pc = "done"
              /\ req[r].status = HTTP_400_BAD_REQUEST
              /\ ~req[r].inserted /\ ~req[r].updated
              /\ req[r].events = <<>>)
    /\ [][\A r \in Slots : (req'[r] # req[r] /\ Rejectable(req'[r])) => links' = links]_vars

\* C6 witness: a request with issue ids for the missing module M3 was rejected
\* while the store held links.
C6_Witness ==
    /\ req[1].pc = "done"
    /\ req[1].status = HTTP_400_BAD_REQUEST
    /\ req[1].module_id \notin modules
    /\ Len(IssuesOf(req[1].data)) = 2
    /\ Cardinality(links) = 3

\* C7: when the submission of the activity event raises after the batched
\* insert and update, the request still returns its success response with the
\* module's current links.
C7_DelayFailureDoesNotFailRequest ==
    \A r \in Slots :
        (req[r].pc = "done" /\ req[r].delay_raised /\ req[r].inserted /\ req[r].updated) =>
            /\ req[r].status = HTTP_200_OK
            /\ req[r].body = ModuleLinks(req[r].module_id)

\* C8: in every reachable state each issue has at most one link, under any
\* interleaving of two bulk-adds for different targets.
C8_AtMostOneLinkPerIssue ==
    \A i \in IssueIds : Cardinality(LinksOfIssue(i)) <= 1

\* C9: ModuleViewSet.create answers every fault with a client error: a name
\* conflict with the name-taken response, any other fault raised while saving
\* with the generic one and a report to the error tracker; it always responds.
C9_EveryFaultAnswered ==
    mod.called =>
        /\ mod.status # NoResponse
        /\ mod.fault # "none" => mod.status \in 400..499
        /\ mod.fault = "name_conflict" =>
              /\ mod.status = HTTP_410_GONE
              /\ mod.body = "The module name is already taken"
              /\ mod.body # GenericError
        /\ mod.fault \in {"integrity_other", "error"} =>
              /\ mod.status = HTTP_400_BAD_REQUEST
              /\ mod.body = GenericError
              /\ mod.captured

\* C10: a bulk-add that returns its success response has submitted exactly one
\* activity event, whatever the plan; an event is submitted only after the
\* batched insert and the batched update were issued, and it carries exactly
\* the activity entries and the create entries of the plan.
C10_OneEventAfterWrites ==
    \A r \in Slots :
        /\ Len(req[r].events) <= 1
        /\ req[r].events # <<>> => req[r].inserted /\ req[r].updated
        /\ Succeeded(r) =>
              /\ Len(req[r].events) = 1
              /\ req[r].events[1].updated_module_issues = req[r].update_module_issue_activity
              /\ req[r].events[1].created_module_issues = req[r].record_to_create

\* C10 witness: a successful bulk-add of two issues whose event carries two
\* create entries.
C10_Witness ==
    /\ Succeeded(1)
    /\ Len(req[1].events) = 1
    /\ Len(req[1].events[1].created_module_issues) = 2
    /\ Cardinality(Requested(1)) = 2

====
